---- MODULE Spec2Model ----
(***************************************************************************)
(* Settlement core of the marketplace server: the storage layer            *)
(* (MemStorage / MongoDBStorage behind IStorage) and the route handlers    *)
(* of registerRoutes that move money: POST /api/stripe-webhook,            *)
(* POST /api/create-payment-intent, POST /api/withdrawals and              *)
(* PUT /api/withdrawals/:id/status, with the handlers that set up the      *)
(* records they read (register, products, coupons, create-subscription,    *)
(* POST /api/sales) and GET /api/coupons/:code/validate.                   *)
(*                                                                         *)
(* Every handler is an async function written against the asynchronous     *)
(* IStorage interface.  With MongoDBStorage each storage call is a         *)
(* database round trip, so requests interleave at every `await`; a         *)
(* handler is modelled as one step per storage call (the call, its result  *)
(* and the synchronous code up to the next call).  A run in which every    *)
(* handler finishes before the next one starts (all that MemStorage can    *)
(* produce for handlers that await only storage calls) is one of the       *)
(* interleavings.                                                          *)
(*                                                                         *)
(* Money is a JavaScript Number: an IEEE 754 binary64.  The arithmetic of  *)
(* the handlers is modelled bit-exactly (round to nearest, ties to even)   *)
(* on arbitrary-precision mantissas held as sequences of limbs.            *)
(***************************************************************************)
EXTENDS Integers, Sequences, FiniteSets, Bags, TLC

(***************************************************************************)
(* Natural numbers of arbitrary size: little-endian sequences of limbs in  *)
(* base Base, without high zero limbs (zero is the empty sequence).        *)
(***************************************************************************)
Base == 32768

LimbBits == 15

Precision == 53

Limb(a, i) == IF i <= Len(a) THEN a[i] ELSE 0

RECURSIVE BNorm(_)
BNorm(a) ==
    IF a = <<>> THEN <<>>
    ELSE IF a[Len(a)] = 0 THEN BNorm(SubSeq(a, 1, Len(a) - 1))
    ELSE a

RECURSIVE BFromNat(_)
BFromNat(n) == IF n = 0 THEN <<>> ELSE <<n % Base>> \o BFromNat(n \div Base)

RECURSIVE BToNat(_)
BToNat(a) == IF a = <<>> THEN 0 ELSE a[1] + Base * BToNat(Tail(a))

RECURSIVE BAddR(_, _, _, _)
BAddR(a, b, i, c) ==
    IF i > Len(a) /\ i > Len(b)
    THEN (IF c = 0 THEN <<>> ELSE <<c>>)
    ELSE LET t == Limb(a, i) + Limb(b, i) + c
         IN  <<t % Base>> \o BAddR(a, b, i + 1, t \div Base)

BAdd(a, b) == BAddR(a, b, 1, 0)

\* a - b for a >= b
RECURSIVE BSubR(_, _, _, _)
BSubR(a, b, i, c) ==
    IF i > Len(a) THEN <<>>
    ELSE LET t == Limb(a, i) - Limb(b, i) - c
         IN  IF t < 0 THEN <<t + Base>> \o BSubR(a, b, i + 1, 1)
             ELSE <<t>> \o BSubR(a, b, i + 1, 0)

BSub(a, b) == BNorm(BSubR(a, b, 1, 0))

\* -1, 0, 1 as a < b, a = b, a > b
RECURSIVE BCmpR(_, _, _)
BCmpR(a, b, i) ==
    IF i = 0 THEN 0
    ELSE IF a[i] < b[i] THEN -1
    ELSE IF a[i] > b[i] THEN 1
    ELSE BCmpR(a, b, i - 1)

BCmp(a, b) ==
    IF Len(a) < Len(b) THEN -1
    ELSE IF Len(a) > Len(b) THEN 1
    ELSE BCmpR(a, b, Len(a))

\* a * k for 0 <= k < Base
RECURSIVE BMulSmallR(_, _, _, _)
BMulSmallR(a, k, i, c) ==
    IF i > Len(a)
    THEN (IF c = 0 THEN <<>> ELSE <<c>>)
    ELSE LET t == a[i] * k + c
         IN  <<t % Base>> \o BMulSmallR(a, k, i + 1, t \div Base)

BMulSmall(a, k) == IF k = 0 THEN <<>> ELSE BMulSmallR(a, k, 1, 0)

RECURSIVE BMul(_, _)
BMul(a, b) ==
    IF b = <<>> \/ a = <<>> THEN <<>>
    ELSE BAdd(BMulSmall(a, b[1]),
              LET r == BMul(a, Tail(b)) IN IF r = <<>> THEN <<>> ELSE <<0>> \o r)

\* <<quotient, remainder>> of a by d for 0 < d < Base
RECURSIVE BDivSmallR(_, _, _, _)
BDivSmallR(a, d, i, r) ==
    IF i = 0 THEN <<<<>>, r>>
    ELSE LET t    == r * Base + a[i]
             rest == BDivSmallR(a, d, i - 1, t % d)
         IN  <<Append(rest[1], t \div d), rest[2]>>

BDivSmall(a, d) ==
    LET qr == BDivSmallR(a, d, Len(a), 0)
    IN  <<BNorm(qr[1]), qr[2]>>

Pow2(n) == 2 ^ n

Zeros(n) == [i \in 1..n |-> 0]

\* a * 2^n
BShl(a, n) ==
    IF a = <<>> THEN <<>>
    ELSE Zeros(n \div LimbBits) \o BMulSmall(a, Pow2(n % LimbBits))

\* floor(a / 2^n)
BShr(a, n) ==
    LET q == n \div LimbBits
    IN  IF q >= Len(a) THEN <<>>
        ELSE BDivSmall(SubSeq(a, q + 1, Len(a)), Pow2(n % LimbBits))[1]

RECURSIVE NatBitLen(_)
NatBitLen(n) == IF n = 0 THEN 0 ELSE 1 + NatBitLen(n \div 2)

BitLen(a) == IF a = <<>> THEN 0 ELSE LimbBits * (Len(a) - 1) + NatBitLen(a[Len(a)])

BOdd(a) == a /= <<>> /\ a[1] % 2 = 1

RECURSIVE NatTrailingZeros(_)
NatTrailingZeros(n) == IF n % 2 = 1 THEN 0 ELSE 1 + NatTrailingZeros(n \div 2)

\* number of trailing zero bits of a > 0
RECURSIVE BTrailingZeros(_)
BTrailingZeros(a) ==
    IF a[1] = 0 THEN LimbBits + BTrailingZeros(Tail(a))
    ELSE NatTrailingZeros(a[1])

(***************************************************************************)
(* A Number is <<sign, mantissa, exponent>> with value                     *)
(* (-1)^sign * mantissa * 2^exponent; the mantissa is odd and shorter than *)
(* Precision bits, or the Number is Zero.  Equal values have equal         *)
(* representations, so = on Numbers is JavaScript's ===.                   *)
(***************************************************************************)
Zero == <<0, <<>>, 0>>

IsZero(x) == x[2] = <<>>

\* strip the trailing zero bits of the mantissa
Canon(s, m, e) ==
    IF m = <<>> THEN Zero
    ELSE LET z == BTrailingZeros(m)
         IN  <<s, BShr(m, z), e + z>>

\* round m * 2^e (plus a non-zero tail below it when sticky) to Precision bits
RoundNearestEven(s, m, e, sticky) ==
    LET len == BitLen(m)
    IN  IF len <= Precision THEN Canon(s, m, e)
        ELSE LET sh   == len - Precision
                 q    == BShr(m, sh)
                 rem  == BSub(m, BShl(q, sh))
                 half == BShl(<<1>>, sh - 1)
                 c    == BCmp(rem, half)
                 up   == c > 0 \/ (c = 0 /\ (sticky \/ BOdd(q)))
             IN  Canon(s, IF up THEN BAdd(q, <<1>>) ELSE q, e + sh)

FromInt(n) == IF n >= 0 THEN Canon(0, BFromNat(n), 0) ELSE Canon(1, BFromNat(-n), 0)

FNeg(x) == IF IsZero(x) THEN x ELSE <<1 - x[1], x[2], x[3]>>

\* the exact sum as <<sign, mantissa, exponent>>, before rounding
ExactAdd(x, y) ==
    LET e  == IF x[3] < y[3] THEN x[3] ELSE y[3]
        mx == BShl(x[2], x[3] - e)
        my == BShl(y[2], y[3] - e)
    IN  IF x[1] = y[1] THEN <<x[1], BAdd(mx, my), e>>
        ELSE IF BCmp(mx, my) >= 0 THEN <<x[1], BSub(mx, my), e>>
        ELSE <<y[1], BSub(my, mx), e>>

FAdd(x, y) ==
    IF IsZero(x) THEN y
    ELSE IF IsZero(y) THEN x
    ELSE LET r == ExactAdd(x, y) IN RoundNearestEven(r[1], r[2], r[3], FALSE)

FSub(x, y) == FAdd(x, FNeg(y))

FMul(x, y) ==
    IF IsZero(x) \/ IsZero(y) THEN Zero
    ELSE RoundNearestEven((x[1] + y[1]) % 2, BMul(x[2], y[2]), x[3] + y[3], FALSE)

GuardBits == 75

\* x / d for an integer 0 < d < Base
FDivInt(x, d) ==
    IF IsZero(x) THEN Zero
    ELSE LET qr == BDivSmall(BShl(x[2], GuardBits), d)
         IN  RoundNearestEven(x[1], qr[1], x[3] - GuardBits, qr[2] /= 0)

\* the sign of x - y: -1, 0, 1
FCmp(x, y) ==
    IF IsZero(x) /\ IsZero(y) THEN 0
    ELSE IF IsZero(y) THEN (IF x[1] = 0 THEN 1 ELSE -1)
    ELSE IF IsZero(x) THEN (IF y[1] = 0 THEN -1 ELSE 1)
    ELSE LET r == ExactAdd(x, FNeg(y))
         IN  IF r[2] = <<>> THEN 0 ELSE IF r[1] = 0 THEN 1 ELSE -1

FLt(x, y) == FCmp(x, y) < 0

FLe(x, y) == FCmp(x, y) <= 0

FMax(x, y) == IF FLt(x, y) THEN y ELSE x

\* Math.round(x) as an integer: floor(x + 1/2)
MathRound(x) ==
    IF IsZero(x) THEN 0
    ELSE IF x[3] >= 0 THEN (IF x[1] = 0 THEN 1 ELSE -1) * BToNat(BShl(x[2], x[3]))
    ELSE LET twice == BShr(x[2], (-x[3]) - 1)
             up    == BToNat(BShr(BAdd(twice, <<1>>), 1))
         IN  IF x[1] = 0 THEN up
             ELSE IF x[3] = -1 THEN -(up - 1)
             ELSE -up

(***************************************************************************)
(* Bounds of the model and the inputs the requests draw from.              *)
(***************************************************************************)
MaxUsers == 2

MaxProducts == 1

MaxIntents == 2

MaxSales == 2

MaxInflight == 2

MaxCoupons == 2

\* the bound on the coupons where one coupon is all that is looked at
OneCoupon == 1

MaxWithdrawals == 2

\* a purchase with a coupon code starts only while it would leave the
\* usageCount of every coupon at most this
MaxUsageCount == 3

\* a withdrawal is rejected only while its user's balance is at most this
MaxBalance == 40

Roles == {"vendor", "affiliate"}

\* planId of a registration: 0 stands for a body without planId
PlanIdInputs == {0, 9}

Cents(c) == FDivInt(FromInt(c), 100)

PriceInputs == {Cents(4000)}

CommissionTypes == {"percentage", "fixed"}

CommissionRateInputs == {FromInt(50)}

\* couponCode of a purchase: "" stands for a body without couponCode
CouponCodeInputs == {"", "SAVE"}

CouponTypes == {"percentage", "fixed"}

CouponValueInputs == {FromInt(25)}

\* null in a nullable column
Null == -1

\* maxUsage of a new coupon
MaxUsageInputs == {Null, 1}

\* productId of a new coupon: none, 0, the products and an id that is no product
CouponProductIdInputs == {Null, 0} \cup (1..(MaxProducts + 1))

\* expiresAt of a new coupon, and the times at which a coupon is evaluated
ExpiresAtInputs == {Null, 1}

NowInputs == {1, 2}

\* amount of a withdrawal request: below the minimum, the minimum, and the
\* seller's share of one sale without affiliate on the Free plan
WithdrawalAmountInputs == {Cents(1999), Cents(2000), Cents(3760), Cents(3761)}

\* user ids a request body can name: the registered ones and one that is not
UserIdInputs == 1..(MaxUsers + 1)

\* the session of a purchase
BuyerIdInputs == {MaxUsers}

\* affiliateId of a purchase: 0 stands for a body without affiliateId, the
\* others are a registered user (the seller, when that user owns the product)
\* and one that is not registered
AffiliateIdInputs == {0, MaxUsers, MaxUsers + 1}

(***************************************************************************)
(* The state: the collections of the storage, Stripe's payment intents,    *)
(* the requests in flight and the last response sent.                      *)
(***************************************************************************)
VARIABLES
    useMongo,          \* USE_MONGODB: MongoDBStorage (TRUE) or MemStorage
    users,             \* id -> [role, balance, planId]; ids are 1..Len(users)
    products,          \* id -> [sellerId, price, commissionType, commissionRate]
    currentProductId,  \* next product id
    coupons,           \* id -> Coupon; ids are 1..Len(coupons)
    intents,           \* Stripe: id -> [amount, metadata of the purchase]
    sales,             \* id -> Sale; ids are 1..Len(sales)
    withdrawals,       \* id -> [userId, amount, status]; ids are 1..Len(withdrawals)
    inflight,          \* bag of the requests suspended at an await
    lastResp           \* the last response: [kind, status, req]

vars == <<useMongo, users, products, currentProductId, coupons, intents, sales,
          withdrawals, inflight, lastResp>>

\* MemStorage.initializePlans: platformFeePercentage of the plans 1..5
plans == <<6, 5, 4, 3, 2>>

AffiliateFeeRate == FDivInt(FromInt(4), 100)

HasUser(id) == id \in 1..Len(users)

HasProduct(id) == id \in DOMAIN products

HasPlan(id) == id \in 1..Len(plans)

\* storage.updateUser(id, {balance})
UpdateBalance(id, balance) ==
    IF HasUser(id) THEN [users EXCEPT ![id].balance = balance] ELSE users

(***************************************************************************)
(* Scheduling.  A handler suspended on a storage call of MemStorage        *)
(* resumes in the same turn of the event loop, before any other request    *)
(* is served; one suspended on MongoDBStorage or on Stripe does not.       *)
(***************************************************************************)
AwaitsStripe(r) == r.pc \in {"createIntent", "createSubscription"}

Idle == \A r \in BagToSet(inflight) : AwaitsStripe(r)

MayStart == (useMongo \/ Idle) /\ BagCardinality(inflight) < MaxInflight

\* number of requests of one handler in flight
InflightOf(kind) ==
    BagCardinality([r \in {q \in BagToSet(inflight) : q.kind = kind} |-> inflight[r]])

Suspend(r) == inflight (+) SetToBag({r})

Resume(r, r2) == (inflight (-) SetToBag({r})) (+) SetToBag({r2})

Finish(r) == inflight (-) SetToBag({r})

Response(kind, status, r) == [kind |-> kind, status |-> status, req |-> r]

Init ==
    /\ useMongo \in BOOLEAN
    /\ users = <<>>
    /\ products = <<>>
    /\ currentProductId = 1
    /\ coupons = <<>>
    /\ intents = <<>>
    /\ sales = <<>>
    /\ withdrawals = <<>>
    /\ inflight = EmptyBag
    /\ lastResp = Response("none", 0, <<>>)

(***************************************************************************)
(* POST /api/register                                                      *)
(***************************************************************************)
\* createUser: MongoDBStorage stores planId || 1, MemStorage the body's planId
CreateUser(role, planId) ==
    [role |-> role, balance |-> Zero,
     planId |-> IF useMongo /\ planId = 0 THEN 1 ELSE planId]

Register(role, planId) ==
    /\ MayStart
    /\ Len(users) < MaxUsers
    /\ users' = Append(users, CreateUser(role, planId))
    /\ UNCHANGED <<useMongo, products, currentProductId, coupons, intents, sales, withdrawals, inflight, lastResp>>

(***************************************************************************)
(* POST /api/products, DELETE /api/products/:id                            *)
(***************************************************************************)
CreateProduct(userId, price, commissionType, commissionRate) ==
    /\ MayStart
    /\ HasUser(userId)
    /\ users[userId].role = "vendor"
    /\ currentProductId <= MaxProducts
    /\ products' = (currentProductId :> [sellerId |-> userId, price |-> price,
                        commissionType |-> commissionType,
                        commissionRate |-> commissionRate]) @@ products
    /\ currentProductId' = currentProductId + 1
    /\ UNCHANGED <<useMongo, users, coupons, intents, sales, withdrawals, inflight, lastResp>>

DeleteProduct(userId, id) ==
    /\ MayStart
    /\ HasProduct(id)
    /\ products[id].sellerId = userId
    /\ products' = [p \in DOMAIN products \ {id} |-> products[p]]
    /\ UNCHANGED <<useMongo, users, currentProductId, coupons, intents, sales, withdrawals, inflight, lastResp>>

\* PUT /api/products/:id hands the body to storage.updateProduct: the owner can
\* set any column, sellerId included
UpdateProduct(userId, id, sellerId) ==
    /\ MayStart
    /\ HasProduct(id)
    /\ products[id].sellerId = userId
    /\ products' = [products EXCEPT ![id].sellerId = sellerId]
    /\ UNCHANGED <<useMongo, users, currentProductId, coupons, intents, sales, withdrawals, inflight, lastResp>>

(***************************************************************************)
(* POST /api/create-payment-intent                                         *)
(***************************************************************************)
\* Math.round(amount * 100)
ToCents(amount) == MathRound(FMul(amount, FromInt(100)))

PaymentIntentGetProduct(buyerId, productId, affiliateId, couponCode) ==
    /\ MayStart
    /\ HasUser(buyerId)
    /\ Len(intents) + InflightOf("paymentIntent") < MaxIntents
    /\ couponCode /= "" =>
        \A id \in 1..Len(coupons) :
            coupons[id].usageCount + InflightOf("paymentIntent") < MaxUsageCount
    /\ IF ~HasProduct(productId)
       THEN /\ lastResp' = Response("paymentIntent", 404, <<>>)
            /\ UNCHANGED inflight
       ELSE /\ inflight' = Suspend([kind |-> "paymentIntent",
                        pc |-> IF couponCode = "" THEN "createIntent" ELSE "getCoupon",
                        productId |-> productId, buyerId |-> buyerId,
                        sellerId |-> products[productId].sellerId,
                        affiliateId |-> affiliateId, couponCode |-> couponCode,
                        couponId |-> 0, now |-> 0, amount |-> products[productId].price])
            /\ UNCHANGED lastResp
    /\ UNCHANGED <<useMongo, users, products, currentProductId, coupons, intents, sales,
                   withdrawals>>

\* storage.getCouponByCode: the id of the coupon with the code, 0 when there is none
GetCouponByCode(code) ==
    IF \E id \in 1..Len(coupons) : coupons[id].code = code
    THEN CHOOSE id \in 1..Len(coupons) :
            /\ coupons[id].code = code
            /\ \A other \in 1..(id - 1) : coupons[other].code /= code
    ELSE 0

\* the condition under which create-payment-intent applies a coupon: a falsy
\* productId or maxUsage (null, undefined, 0) is no restriction
CouponApplies(coupon, productId, now) ==
    /\ (coupon.productId \in {Null, 0} \/ coupon.productId = productId)
    /\ (coupon.maxUsage \in {Null, 0} \/ coupon.usageCount < coupon.maxUsage)
    /\ (coupon.expiresAt = Null \/ coupon.expiresAt >= now)

\* the amount after the discount
Discounted(coupon, amount) ==
    IF coupon.type = "percentage"
    THEN FMul(amount, FSub(FromInt(1), FDivInt(coupon.value, 100)))
    ELSE FMax(Zero, FSub(amount, coupon.value))

\* storage.getCouponByCode and the evaluation of the coupon at the time now
PaymentIntentGetCoupon(r, now) ==
    /\ r.kind = "paymentIntent" /\ r.pc = "getCoupon"
    /\ LET id == GetCouponByCode(r.couponCode)
       IN  inflight' = Resume(r,
               IF id /= 0 /\ CouponApplies(coupons[id], r.productId, now)
               THEN [r EXCEPT !.pc = "incrementUsage", !.couponId = id, !.now = now,
                              !.amount = Discounted(coupons[id], r.amount)]
               ELSE [r EXCEPT !.pc = "createIntent", !.now = now])
    /\ UNCHANGED <<useMongo, users, products, currentProductId, coupons, intents, sales,
                   withdrawals, lastResp>>

\* an update that sets the usageCount to that of a first use
SetCouponUsed(id) ==
    IF id \in 1..Len(coupons) THEN [coupons EXCEPT ![id].usageCount = 1] ELSE coupons

\* storage.incrementCouponUsage(id)
IncrementCouponUsage(id) ==
    IF id \in 1..Len(coupons)
    THEN [coupons EXCEPT ![id].usageCount = coupons[id].usageCount + 1]
    ELSE coupons

PaymentIntentIncrementUsage(r) ==
    /\ r.kind = "paymentIntent" /\ r.pc = "incrementUsage"
    /\ coupons' = IncrementCouponUsage(r.couponId)
    /\ inflight' = Resume(r, [r EXCEPT !.pc = "createIntent"])
    /\ UNCHANGED <<useMongo, users, products, currentProductId, intents, sales,
                   withdrawals, lastResp>>

\* stripe.paymentIntents.create and the response; Stripe creates a payment
\* intent only for a positive amount, any other throws into the catch block
PaymentIntentCreate(r) ==
    /\ r.kind = "paymentIntent" /\ r.pc = "createIntent"
    /\ IF ToCents(r.amount) >= 1
       THEN /\ intents' = Append(intents,
                        [amount |-> ToCents(r.amount), productId |-> r.productId,
                         buyerId |-> r.buyerId, sellerId |-> r.sellerId,
                         affiliateId |-> r.affiliateId, couponCode |-> r.couponCode])
            /\ lastResp' = Response("paymentIntent", 200, r)
       ELSE /\ lastResp' = Response("paymentIntent", 400, r)
            /\ UNCHANGED intents
    /\ inflight' = Finish(r)
    /\ UNCHANGED <<useMongo, users, products, currentProductId, coupons, sales, withdrawals>>

(***************************************************************************)
(* POST /api/coupons                                                       *)
(***************************************************************************)
\* createCoupon: MongoDBStorage stores maxUsage || null and productId || null
NewCoupon(sellerId, code, type, value, productId, maxUsage, expiresAt) ==
    [sellerId |-> sellerId, code |-> code, type |-> type, value |-> value,
     productId |-> IF useMongo /\ productId = 0 THEN Null ELSE productId,
     maxUsage |-> IF useMongo /\ maxUsage = 0 THEN Null ELSE maxUsage,
     expiresAt |-> expiresAt,
     usageCount |-> 0]

\* storage.getCouponByCode(code): 400 when a coupon has the code; limit bounds
\* the coupons created and being created
CouponGetByCode(limit, userId, code, type, value, productId, maxUsage, expiresAt) ==
    /\ MayStart
    /\ HasUser(userId)
    /\ users[userId].role = "vendor"
    /\ Len(coupons) + InflightOf("coupon") < limit
    /\ LET r == [kind |-> "coupon", pc |-> "createCoupon", userId |-> userId, code |-> code,
                 type |-> type, value |-> value, productId |-> productId,
                 maxUsage |-> maxUsage, expiresAt |-> expiresAt]
       IN  IF GetCouponByCode(code) /= 0
           THEN /\ lastResp' = Response("coupon", 400, r)
                /\ UNCHANGED inflight
           ELSE /\ inflight' = Suspend(r)
                /\ UNCHANGED lastResp
    /\ UNCHANGED <<useMongo, users, products, currentProductId, coupons, intents, sales,
                   withdrawals>>

\* storage.createCoupon(couponData)
CreateCoupon(r) ==
    /\ r.kind = "coupon" /\ r.pc = "createCoupon"
    /\ coupons' = Append(coupons, NewCoupon(r.userId, r.code, r.type, r.value, r.productId,
                                            r.maxUsage, r.expiresAt))
    /\ inflight' = Finish(r)
    /\ UNCHANGED <<useMongo, users, products, currentProductId, intents, sales,
                   withdrawals, lastResp>>

(***************************************************************************)
(* GET /api/coupons/:code/validate                                         *)
(***************************************************************************)
\* the three checks of the handler: only null is no restriction on productId
\* and maxUsage, any falsy expiresAt is none
CouponValidates(coupon, productId, now) ==
    /\ ~(coupon.productId /= Null /\ coupon.productId /= productId)
    /\ ~(coupon.maxUsage /= Null /\ coupon.usageCount >= coupon.maxUsage)
    /\ ~(coupon.expiresAt /= Null /\ coupon.expiresAt < now)

\* storage.getCouponByCode(code), the checks at the time now and the response
ValidateCoupon(code, productId, now) ==
    /\ MayStart
    /\ LET id == GetCouponByCode(code)
           q  == [code |-> code, productId |-> productId, now |-> now, couponId |-> id]
       IN  lastResp' = Response("validate",
                                IF id = 0 THEN 404
                                ELSE IF CouponValidates(coupons[id], productId, now) THEN 200
                                ELSE 400, q)
    /\ UNCHANGED <<useMongo, users, products, currentProductId, coupons, intents, sales,
                   withdrawals, inflight>>

(***************************************************************************)
(* POST /api/withdrawals                                                   *)
(***************************************************************************)
MinimumWithdrawal == FromInt(20)

\* the checks without the comparison with the balance
WithdrawalStatusWithoutBalance(balance, amount) ==
    IF IsZero(amount) \/ FLt(amount, MinimumWithdrawal) THEN 400 ELSE 201

\* the checks of the handler on the balance it read: 201 when both pass
WithdrawalStatus(balance, amount) ==
    IF IsZero(amount) \/ FLt(amount, MinimumWithdrawal) THEN 400
    ELSE IF FLt(balance, amount) THEN 400
    ELSE 201

WithdrawalGetUser(userId, amount) ==
    /\ MayStart
    /\ HasUser(userId)
    /\ Len(withdrawals) + InflightOf("withdrawal") < MaxWithdrawals
    /\ LET r == [kind |-> "withdrawal", pc |-> "createWithdrawal", userId |-> userId,
                 amount |-> amount, balance |-> users[userId].balance, writes |-> 0]
       IN  IF WithdrawalStatus(r.balance, amount) = 201
           THEN /\ inflight' = Suspend(r)
                /\ UNCHANGED lastResp
           ELSE /\ lastResp' = Response("withdrawal", 400, r)
                /\ UNCHANGED inflight
    /\ UNCHANGED <<useMongo, users, products, currentProductId, coupons, intents, sales,
                   withdrawals>>

\* storage.createWithdrawal({userId, amount})
WithdrawalCreate(r) ==
    /\ r.kind = "withdrawal" /\ r.pc = "createWithdrawal"
    /\ withdrawals' = Append(withdrawals,
                             [userId |-> r.userId, amount |-> r.amount, status |-> "pending",
                              stripeTransferId |-> Null])
    /\ inflight' = Resume(r, [r EXCEPT !.pc = "debit", !.writes = r.writes + 1])
    /\ UNCHANGED <<useMongo, users, products, currentProductId, coupons, intents, sales,
                   lastResp>>

\* the debit taken from the balance at the time of the write, not from the one read
WithdrawalDebitCurrent(r) ==
    /\ r.kind = "withdrawal" /\ r.pc = "debit"
    /\ users' = UpdateBalance(r.userId, FSub(users[r.userId].balance, r.amount))
    /\ inflight' = Finish(r)
    /\ lastResp' = Response("withdrawal", 201, [r EXCEPT !.writes = r.writes + 1])
    /\ UNCHANGED <<useMongo, products, currentProductId, coupons, intents, sales,
                   withdrawals>>

\* storage.updateUser(userId, {balance: user.balance - amount}) and the response
WithdrawalDebit(r) ==
    /\ r.kind = "withdrawal" /\ r.pc = "debit"
    /\ users' = UpdateBalance(r.userId, FSub(r.balance, r.amount))
    /\ inflight' = Finish(r)
    /\ lastResp' = Response("withdrawal", 201, [r EXCEPT !.writes = r.writes + 1])
    /\ UNCHANGED <<useMongo, products, currentProductId, coupons, intents, sales,
                   withdrawals>>

(***************************************************************************)
(* PUT /api/withdrawals/:id/status                                         *)
(***************************************************************************)
\* status of the request body: the three the handler accepts and one it does not
WithdrawalStatusInputs == {"pending", "completed", "rejected", "paid"}

ValidStatuses == {"pending", "completed", "rejected"}

HasWithdrawal(id) == id \in 1..Len(withdrawals)

\* stripeTransferId of the request body: absent, or the id of a Stripe transfer
TransferIdInputs == {Null, 1}

\* the update of the status alone, whatever stripeTransferId comes with it
UpdateWithdrawalStatusOnly(id, status, stripeTransferId) ==
    IF HasWithdrawal(id) THEN [withdrawals EXCEPT ![id].status = status] ELSE withdrawals

\* storage.updateWithdrawalStatus(id, status, stripeTransferId)
UpdateWithdrawalStatus(id, status, stripeTransferId) ==
    IF HasWithdrawal(id)
    THEN [withdrawals EXCEPT
             ![id].status = status,
             ![id].stripeTransferId = IF stripeTransferId /= Null THEN stripeTransferId ELSE @]
    ELSE withdrawals

\* the handler up to the response or, for rejected, up to the read of the user;
\* the balance bound keeps repeated rejections of one withdrawal finite, and
\* "was" remembers the status that the update replaced
StatusUpdate(adminId, id, status, stripeTransferId) ==
    /\ MayStart
    /\ HasUser(adminId) /\ users[adminId].role = "admin"
    /\ LET r == [kind |-> "withdrawalStatus", pc |-> "getUser", id |-> id,
                 status |-> status, stripeTransferId |-> stripeTransferId,
                 userId |-> IF HasWithdrawal(id) THEN withdrawals[id].userId ELSE 0,
                 amount |-> IF HasWithdrawal(id) THEN withdrawals[id].amount ELSE Zero,
                 was |-> IF HasWithdrawal(id) THEN withdrawals[id].status ELSE "",
                 balance |-> Zero, writes |-> 0]
       IN  IF status \notin ValidStatuses
           THEN /\ lastResp' = Response("withdrawalStatus", 400, r)
                /\ UNCHANGED <<withdrawals, inflight>>
           ELSE IF ~HasWithdrawal(id)
           THEN /\ lastResp' = Response("withdrawalStatus", 404, r)
                /\ UNCHANGED <<withdrawals, inflight>>
           ELSE /\ withdrawals' = UpdateWithdrawalStatus(id, status, stripeTransferId)
                /\ IF status = "rejected"
                   THEN /\ FLe(users[r.userId].balance, FromInt(MaxBalance))
                        /\ inflight' = Suspend([r EXCEPT !.writes = 1])
                        /\ UNCHANGED lastResp
                   ELSE /\ lastResp' = Response("withdrawalStatus", 200,
                                                [r EXCEPT !.writes = 1])
                        /\ UNCHANGED inflight
    /\ UNCHANGED <<useMongo, users, products, currentProductId, coupons, intents, sales>>

\* storage.getUser(withdrawal.userId)
StatusUpdateGetUser(r) ==
    /\ r.kind = "withdrawalStatus" /\ r.pc = "getUser"
    /\ inflight' = Resume(r, [r EXCEPT !.pc = "refund", !.balance = users[r.userId].balance])
    /\ UNCHANGED <<useMongo, users, products, currentProductId, coupons, intents, sales,
                   withdrawals, lastResp>>

\* storage.updateUser(user.id, {balance: user.balance + withdrawal.amount}) and
\* the response
StatusUpdateRefund(r) ==
    /\ r.kind = "withdrawalStatus" /\ r.pc = "refund"
    /\ users' = UpdateBalance(r.userId, FAdd(r.balance, r.amount))
    /\ inflight' = Finish(r)
    /\ lastResp' = Response("withdrawalStatus", 200, [r EXCEPT !.writes = r.writes + 1])
    /\ UNCHANGED <<useMongo, products, currentProductId, coupons, intents, sales,
                   withdrawals>>

(***************************************************************************)
(* POST /api/stripe-webhook, event payment_intent.succeeded                *)
(***************************************************************************)
\* commission of the affiliate before the affiliate-side fee
RawCommission(product, amount) ==
    IF product.commissionType = "percentage"
    THEN FMul(amount, FDivInt(product.commissionRate, 100))
    ELSE product.commissionRate

\* affiliateAmount -= affiliateAmount * 0.04
AffiliateAmount(product, amount) ==
    LET raw == RawCommission(product, amount)
    IN  FSub(raw, FMul(raw, AffiliateFeeRate))

\* sellerAmount * (platformFeePercentage / 100)
PlatformFee(sellerAmount, platformFeePercentage) ==
    FMul(sellerAmount, FDivInt(FromInt(platformFeePercentage), 100))

\* the amounts once the affiliate's share is known: platformFee, sellerAmount
WithFee(r, affiliateAmount) ==
    LET beforeFee == FSub(r.amount, affiliateAmount)
        fee       == PlatformFee(beforeFee, r.platformFeePercentage)
    IN  [r EXCEPT !.platformFee = fee, !.sellerAmount = FSub(beforeFee, fee)]

WebhookGetProduct(pi) ==
    /\ MayStart
    /\ pi \in 1..Len(intents)
    /\ Len(sales) + InflightOf("webhook") < MaxSales
    /\ LET ev == intents[pi]
       IN  IF ~HasProduct(ev.productId)
           THEN /\ lastResp' = Response("webhook", 400,
                                        [pi |-> pi, pc |-> "getProduct", writes |-> 0])
                /\ UNCHANGED inflight
           ELSE /\ inflight' = Suspend([kind |-> "webhook", pc |-> "getSeller", pi |-> pi,
                        product |-> products[ev.productId],
                        amount |-> FDivInt(FromInt(ev.amount), 100),
                        seller |-> Zero, platformFeePercentage |-> 0,
                        affiliate |-> Zero, affiliateAmount |-> Zero,
                        sellerAmount |-> Zero, platformFee |-> Zero, writes |-> 0])
                /\ UNCHANGED lastResp
    /\ UNCHANGED <<useMongo, users, products, currentProductId, coupons, intents, sales,
                   withdrawals>>

\* the seller lookup without its 400: a missing seller settles as an empty one
WebhookGetSellerUnchecked(r) ==
    /\ r.kind = "webhook" /\ r.pc = "getSeller"
    /\ LET sellerId == intents[r.pi].sellerId
       IN  inflight' = Resume(r, [r EXCEPT !.pc = "getPlan",
                   !.seller = IF HasUser(sellerId) THEN users[sellerId].balance ELSE Zero,
                   !.platformFeePercentage =
                       IF ~HasUser(sellerId) \/ users[sellerId].planId = 0
                       THEN 1 ELSE users[sellerId].planId])
    /\ UNCHANGED <<useMongo, users, products, currentProductId, coupons, intents, sales,
                   withdrawals, lastResp>>

\* the seller lookup with the Basic plan, not the Free plan, for a seller without plan
WebhookGetSellerDefaultBasic(r) ==
    /\ r.kind = "webhook" /\ r.pc = "getSeller"
    /\ LET sellerId == intents[r.pi].sellerId
       IN  IF ~HasUser(sellerId)
           THEN /\ inflight' = Finish(r)
                /\ lastResp' = Response("webhook", 400, r)
           ELSE /\ inflight' = Resume(r, [r EXCEPT !.pc = "getPlan",
                        !.seller = users[sellerId].balance,
                        !.platformFeePercentage =
                            IF users[sellerId].planId = 0 THEN 2 ELSE users[sellerId].planId])
                /\ UNCHANGED lastResp
    /\ UNCHANGED <<useMongo, users, products, currentProductId, coupons, intents, sales,
                   withdrawals>>

\* storage.getUser(sellerId); planId = seller.planId || 1
WebhookGetSeller(r) ==
    /\ r.kind = "webhook" /\ r.pc = "getSeller"
    /\ LET sellerId == intents[r.pi].sellerId
       IN  IF ~HasUser(sellerId)
           THEN /\ inflight' = Finish(r)
                /\ lastResp' = Response("webhook", 400, r)
           ELSE /\ inflight' = Resume(r, [r EXCEPT !.pc = "getPlan",
                        !.seller = users[sellerId].balance,
                        !.platformFeePercentage =
                            IF users[sellerId].planId = 0 THEN 1 ELSE users[sellerId].planId])
                /\ UNCHANGED lastResp
    /\ UNCHANGED <<useMongo, users, products, currentProductId, coupons, intents, sales,
                   withdrawals>>

\* storage.getPlan(planId), then the commission when the event names an affiliate
WebhookGetPlan(r) ==
    /\ r.kind = "webhook" /\ r.pc = "getPlan"
    /\ LET planId == r.platformFeePercentage
           fee    == [r EXCEPT !.platformFeePercentage = plans[planId]]
       IN  IF ~HasPlan(planId)
           THEN /\ inflight' = Finish(r)
                /\ lastResp' = Response("webhook", 400, r)
           ELSE /\ inflight' = Resume(r,
                        IF intents[r.pi].affiliateId /= 0
                        THEN [fee EXCEPT !.pc = "getAffiliate",
                                 !.affiliateAmount = AffiliateAmount(r.product, r.amount)]
                        ELSE [WithFee(fee, Zero) EXCEPT !.pc = "creditSeller"])
                /\ UNCHANGED lastResp
    /\ UNCHANGED <<useMongo, users, products, currentProductId, coupons, intents, sales,
                   withdrawals>>

\* storage.getUser(affiliateId); a missing affiliate is skipped, its share is not
WebhookGetAffiliate(r) ==
    /\ r.kind = "webhook" /\ r.pc = "getAffiliate"
    /\ LET affiliateId == intents[r.pi].affiliateId
       IN  inflight' = Resume(r,
               IF HasUser(affiliateId)
               THEN [r EXCEPT !.pc = "creditAffiliate",
                              !.affiliate = users[affiliateId].balance]
               ELSE [WithFee(r, r.affiliateAmount) EXCEPT !.pc = "creditSeller"])
    /\ UNCHANGED <<useMongo, users, products, currentProductId, coupons, intents, sales,
                   withdrawals, lastResp>>

\* storage.updateUser(affiliateId, {balance: affiliate.balance + affiliateAmount})
WebhookCreditAffiliate(r) ==
    /\ r.kind = "webhook" /\ r.pc = "creditAffiliate"
    /\ users' = UpdateBalance(intents[r.pi].affiliateId, FAdd(r.affiliate, r.affiliateAmount))
    /\ inflight' = Resume(r, [WithFee(r, r.affiliateAmount) EXCEPT
                                 !.pc = "creditSeller", !.writes = r.writes + 1])
    /\ UNCHANGED <<useMongo, products, currentProductId, coupons, intents, sales,
                   withdrawals, lastResp>>

\* storage.updateUser(sellerId, {balance: seller.balance + sellerAmount})
WebhookCreditSeller(r) ==
    /\ r.kind = "webhook" /\ r.pc = "creditSeller"
    /\ users' = UpdateBalance(intents[r.pi].sellerId, FAdd(r.seller, r.sellerAmount))
    /\ inflight' = Resume(r, [r EXCEPT !.pc = "createSale", !.writes = r.writes + 1])
    /\ UNCHANGED <<useMongo, products, currentProductId, coupons, intents, sales,
                   withdrawals, lastResp>>

\* a number column that holds null, and the number it reads as in arithmetic
NullNumber == <<>>

Num(x) == IF x = NullNumber THEN Zero ELSE x

\* MongoDBStorage.createSale stores affiliateAmount || null, MemStorage the value
StoredAffiliateAmount(affiliateAmount) ==
    IF useMongo /\ IsZero(affiliateAmount) THEN NullNumber ELSE affiliateAmount

\* a createSale that takes the id of the last sale instead of a new one
CreateSaleSameId(sale) ==
    IF sales = <<>> THEN <<sale>> ELSE [sales EXCEPT ![Len(sales)] = sale]

\* storage.createSale: the sale under a new id
CreateSale(sale) == Append(sales, sale)

\* a createSale that waits while a Sale carries the payment reference of the event
WebhookCreateSaleOnce(r) ==
    /\ r.kind = "webhook" /\ r.pc = "createSale"
    /\ \A i \in 1..Len(sales) : sales[i].stripePaymentIntentId /= r.pi
    /\ sales' = CreateSale([productId |-> intents[r.pi].productId,
                            buyerId |-> intents[r.pi].buyerId,
                            sellerId |-> intents[r.pi].sellerId,
                            affiliateId |-> intents[r.pi].affiliateId,
                            amount |-> r.amount,
                            sellerAmount |-> r.sellerAmount,
                            affiliateAmount |-> StoredAffiliateAmount(r.affiliateAmount),
                            platformFee |-> r.platformFee,
                            status |-> "completed",
                            stripePaymentIntentId |-> r.pi])
    /\ inflight' = Finish(r)
    /\ lastResp' = Response("webhook", 200, [r EXCEPT !.writes = r.writes + 1])
    /\ UNCHANGED <<useMongo, users, products, currentProductId, coupons, intents,
                   withdrawals>>

\* storage.createSale and the response
WebhookCreateSale(r) ==
    /\ r.kind = "webhook" /\ r.pc = "createSale"
    /\ sales' = CreateSale([productId |-> intents[r.pi].productId,
                        buyerId |-> intents[r.pi].buyerId,
                        sellerId |-> intents[r.pi].sellerId,
                        affiliateId |-> intents[r.pi].affiliateId,
                        amount |-> r.amount,
                        sellerAmount |-> r.sellerAmount,
                        affiliateAmount |-> StoredAffiliateAmount(r.affiliateAmount),
                        platformFee |-> r.platformFee,
                        status |-> "completed",
                        stripePaymentIntentId |-> r.pi])
    /\ inflight' = Finish(r)
    /\ lastResp' = Response("webhook", 200, [r EXCEPT !.writes = r.writes + 1])
    /\ UNCHANGED <<useMongo, users, products, currentProductId, coupons, intents,
                   withdrawals>>

(***************************************************************************)
(* POST /api/sales                                                         *)
(***************************************************************************)
\* status of the request body
SaleStatusInputs == {"pending", "completed"}

\* sellerAmount of the request body
SellerAmountInputs == {Cents(4000), Cents(100000)}

\* stripePaymentIntentId of the request body: absent, or a payment reference
PaymentReferenceInputs == {Null, 1}

\* the body is stored as it passes insertSaleSchema, with the session's user as
\* buyer: no product, seller or payment is looked up
PostSale(buyerId, productId, sellerId, amount, sellerAmount, status, stripePaymentIntentId) ==
    /\ MayStart
    /\ HasUser(buyerId)
    /\ Len(sales) + InflightOf("webhook") < MaxSales
    /\ LET sale == [productId |-> productId, buyerId |-> buyerId, sellerId |-> sellerId,
                    affiliateId |-> 0, amount |-> amount, sellerAmount |-> sellerAmount,
                    affiliateAmount |-> NullNumber, platformFee |-> Zero,
                    status |-> status, stripePaymentIntentId |-> stripePaymentIntentId]
       IN  /\ sales' = CreateSale(sale)
           /\ lastResp' = Response("sale", 201, sale)
    /\ UNCHANGED <<useMongo, users, products, currentProductId, coupons, intents,
                   withdrawals, inflight>>

(***************************************************************************)
(* POST /api/create-subscription                                           *)
(***************************************************************************)
\* planId of the request body: the free plan, a paid plan and one that does not exist
SubscriptionPlanInputs == {1, 2, 9}

\* the plan of MemStorage.initializePlans with price 0
FreePlan == 1

\* storage.getUser(userId) for the user of the session
SubscribeGetUser(userId, planId) ==
    /\ MayStart
    /\ HasUser(userId)
    /\ inflight' = Suspend([kind |-> "subscription", pc |-> "getPlan", userId |-> userId,
                            planId |-> planId, balance |-> users[userId].balance])
    /\ UNCHANGED <<useMongo, users, products, currentProductId, coupons, intents, sales,
                   withdrawals, lastResp>>

\* storage.getPlan(planId): 404 without plan; a free plan needs no payment
SubscribeGetPlan(r) ==
    /\ r.kind = "subscription" /\ r.pc = "getPlan"
    /\ IF ~HasPlan(r.planId)
       THEN /\ inflight' = Finish(r)
            /\ lastResp' = Response("subscription", 404, r)
       ELSE /\ inflight' = Resume(r, [r EXCEPT !.pc = IF r.planId = FreePlan
                                                       THEN "updateUser"
                                                       ELSE "createSubscription"])
            /\ UNCHANGED lastResp
    /\ UNCHANGED <<useMongo, users, products, currentProductId, coupons, intents, sales,
                   withdrawals>>

\* stripe.customers.create and stripe.subscriptions.create: Stripe creates the
\* subscription or throws into the catch block
SubscribeStripe(r, created) ==
    /\ r.kind = "subscription" /\ r.pc = "createSubscription"
    /\ IF created
       THEN /\ inflight' = Resume(r, [r EXCEPT !.pc = "updateUser"])
            /\ UNCHANGED lastResp
       ELSE /\ inflight' = Finish(r)
            /\ lastResp' = Response("subscription", 400, r)
    /\ UNCHANGED <<useMongo, users, products, currentProductId, coupons, intents, sales,
                   withdrawals>>

\* an update that writes the user as the handler read it, with the new planId
SubscribeUpdateUserAsRead(r) ==
    /\ r.kind = "subscription" /\ r.pc = "updateUser"
    /\ users' = [users EXCEPT ![r.userId].planId = r.planId, ![r.userId].balance = r.balance]
    /\ inflight' = Finish(r)
    /\ lastResp' = Response("subscription", 200, r)
    /\ UNCHANGED <<useMongo, products, currentProductId, coupons, intents, sales,
                   withdrawals>>

\* storage.updateUser(userId, {planId}) and the response
SubscribeUpdateUser(r) ==
    /\ r.kind = "subscription" /\ r.pc = "updateUser"
    /\ users' = [users EXCEPT ![r.userId].planId = r.planId]
    /\ inflight' = Finish(r)
    /\ lastResp' = Response("subscription", 200, r)
    /\ UNCHANGED <<useMongo, products, currentProductId, coupons, intents, sales,
                   withdrawals>>

(***************************************************************************)
(* The next-state relation: every handler, with every input.               *)
(***************************************************************************)
Registration(roles, planIds) ==
    \E role \in roles, planId \in planIds : Register(role, planId)

ListingOf(prices, commissionTypes, commissionRates) ==
    \E u \in UserIdInputs, price \in prices, ct \in commissionTypes,
       rate \in commissionRates : CreateProduct(u, price, ct, rate)

Listing == ListingOf(PriceInputs, CommissionTypes, CommissionRateInputs)

Removal ==
    \E u \in UserIdInputs, id \in 1..MaxProducts : DeleteProduct(u, id)

\* the owner hands the product to an id that is not registered
Transfer ==
    \E u \in UserIdInputs, id \in 1..MaxProducts : UpdateProduct(u, id, MaxUsers + 1)

CouponsOf(limit, types, values, productIds, maxUsages, expiries) ==
    \/ \E u \in UserIdInputs, code \in CouponCodeInputs \ {""}, type \in types,
          value \in values, productId \in productIds, maxUsage \in maxUsages,
          expiresAt \in expiries :
          CouponGetByCode(limit, u, code, type, value, productId, maxUsage, expiresAt)
    \/ \E r \in BagToSet(inflight) : CreateCoupon(r)

Coupons == CouponsOf(OneCoupon, CouponTypes, CouponValueInputs, {Null}, MaxUsageInputs, {Null})

Purchase(affiliateIds, couponCodes) ==
    \/ \E u \in BuyerIdInputs, id \in 1..MaxProducts, a \in affiliateIds,
          code \in couponCodes : PaymentIntentGetProduct(u, id, a, code)
    \/ \E r \in BagToSet(inflight) : PaymentIntentCreate(r)

CouponUseAt(nows) ==
    \/ \E r \in BagToSet(inflight), now \in nows : PaymentIntentGetCoupon(r, now)
    \/ \E r \in BagToSet(inflight) : PaymentIntentIncrementUsage(r)

CouponUse == CouponUseAt({2})

Settlement ==
    \/ \E pi \in 1..MaxIntents : WebhookGetProduct(pi)
    \/ \E r \in BagToSet(inflight) : WebhookGetSeller(r)
    \/ \E r \in BagToSet(inflight) : WebhookGetPlan(r)
    \/ \E r \in BagToSet(inflight) : WebhookCreditSeller(r)
    \/ \E r \in BagToSet(inflight) : WebhookCreateSale(r)

AffiliateSettlement ==
    \/ \E r \in BagToSet(inflight) : WebhookGetAffiliate(r)
    \/ \E r \in BagToSet(inflight) : WebhookCreditAffiliate(r)

WithdrawalOf(amounts) ==
    \/ \E u \in UserIdInputs, amount \in amounts : WithdrawalGetUser(u, amount)
    \/ \E r \in BagToSet(inflight) : WithdrawalCreate(r)
    \/ \E r \in BagToSet(inflight) : WithdrawalDebit(r)

Withdrawal == WithdrawalOf(WithdrawalAmountInputs)

\* the admin's request, up to its first storage call
Decision(ids, statuses, transferIds) ==
    \E u \in UserIdInputs, id \in ids, status \in statuses, transferId \in transferIds :
        StatusUpdate(u, id, status, transferId)

PayoutOf(ids, statuses, transferIds) ==
    \/ Decision(ids, statuses, transferIds)
    \/ \E r \in BagToSet(inflight) : StatusUpdateGetUser(r)
    \/ \E r \in BagToSet(inflight) : StatusUpdateRefund(r)

\* a sale posted by the buyer of the purchases, for product 1 and seller 1
DirectSale ==
    \E price \in PriceInputs, sellerAmount \in SellerAmountInputs, status \in SaleStatusInputs,
       ref \in PaymentReferenceInputs :
       \E u \in BuyerIdInputs : PostSale(u, 1, 1, price, sellerAmount, status, ref)

Subscription(userIds, planIds) ==
    \/ \E u \in userIds, planId \in planIds : SubscribeGetUser(u, planId)
    \/ \E r \in BagToSet(inflight) : SubscribeGetPlan(r)
    \/ \E r \in BagToSet(inflight), created \in BOOLEAN : SubscribeStripe(r, created)
    \/ \E r \in BagToSet(inflight) : SubscribeUpdateUser(r)

Validation(nows) ==
    \E code \in CouponCodeInputs \ {""}, productId \in 1..(MaxProducts + 1), now \in nows :
        ValidateCoupon(code, productId, now)

Payout == PayoutOf(1..(MaxWithdrawals + 1), WithdrawalStatusInputs, TransferIdInputs)

Next ==
    \/ Registration(Roles \cup {"admin"}, PlanIdInputs)
    \/ Listing
    \/ Removal
    \/ Transfer
    \/ CouponsOf(MaxCoupons, CouponTypes, CouponValueInputs, CouponProductIdInputs,
                 MaxUsageInputs \cup {0}, ExpiresAtInputs)
    \/ Purchase(AffiliateIdInputs, CouponCodeInputs)
    \/ CouponUseAt(NowInputs)
    \/ Settlement
    \/ AffiliateSettlement
    \/ Withdrawal
    \/ Payout
    \/ DirectSale
    \/ Subscription(UserIdInputs, SubscriptionPlanInputs)
    \/ Validation(NowInputs)

Spec == Init /\ [][Next]_vars

(***************************************************************************)
(* The same program under the requests of one feature at a time: each      *)
(* next-state relation below is Next restricted to the handlers and the    *)
(* inputs of that feature.                                                 *)
(***************************************************************************)
\* purchases without coupon, with and without affiliate, and their settlement
SettlementNext ==
    \/ Registration(Roles, {0})
    \/ Listing
    \/ Purchase(AffiliateIdInputs, {""})
    \/ Settlement
    \/ AffiliateSettlement

SettlementSpec == Init /\ [][SettlementNext]_vars

\* settlement of purchases whose product, seller or plan may be missing
FailureNext ==
    \/ Registration({"vendor"}, PlanIdInputs)
    \/ Listing
    \/ Removal
    \/ Transfer
    \/ Purchase({0, MaxUsers}, {""})
    \/ Settlement
    \/ AffiliateSettlement

FailureSpec == Init /\ [][FailureNext]_vars

\* a handler of the webhook is suspended at the storage call pc
SettlementAt(pc) == \E r \in BagToSet(inflight) : r.kind = "webhook" /\ r.pc = pc

\* a storage call of a handler returns, and the handler runs on from it: weak
\* fairness of each step of the handler.  The steps that compute amounts are
\* enabled exactly while a handler is at their call, and their fairness is
\* stated on that.
SettlementFairness ==
    /\ WF_vars(\E r \in BagToSet(inflight) : WebhookGetSeller(r))
    /\ WF_vars(\E r \in BagToSet(inflight) : WebhookCreateSale(r))
    /\ []<>~SettlementAt("getPlan")
    /\ []<>~SettlementAt("getAffiliate")
    /\ []<>~SettlementAt("creditAffiliate")
    /\ []<>~SettlementAt("creditSeller")

\* the settlements of SettlementSpec, each storage call of which returns
LiveSettlementSpec == SettlementSpec /\ SettlementFairness

\* purchases with a coupon, up to the creation of the payment intent
CouponNext ==
    \/ Registration({"vendor"}, {0})
    \/ Listing
    \/ Coupons
    \/ Purchase({0}, CouponCodeInputs)
    \/ CouponUse

CouponSpec == Init /\ [][CouponNext]_vars

\* purchases without affiliate and coupon, their settlement, and withdrawals
WithdrawalNext ==
    \/ Registration({"vendor"}, {0})
    \/ Listing
    \/ Purchase({0}, {""})
    \/ Settlement
    \/ Withdrawal

WithdrawalSpec == Init /\ [][WithdrawalNext]_vars

\* withdrawals of a seller's earnings and the admin's decisions on them
PayoutNext ==
    \/ Registration({"vendor", "admin"}, {0})
    \/ Listing
    \/ Purchase({0}, {""})
    \/ Settlement
    \/ WithdrawalOf({Cents(2000)})
    \/ PayoutOf(1..MaxWithdrawals, {"pending", "rejected"}, {Null})

PayoutSpec == Init /\ [][PayoutNext]_vars

\* withdrawals of a seller's earnings and their completion by the admin, with
\* and without the reference of a transfer
CompletionNext ==
    \/ Registration({"vendor", "admin"}, {0})
    \/ Listing
    \/ Purchase({0}, {""})
    \/ Settlement
    \/ WithdrawalOf({Cents(2000)})
    \/ Decision(1..MaxWithdrawals, {"completed"}, TransferIdInputs)

CompletionSpec == Init /\ [][CompletionNext]_vars

\* sales recorded by settlement and sales posted by a user
SaleNext ==
    \/ Registration({"vendor"}, {0})
    \/ Listing
    \/ Purchase({0}, {""})
    \/ Settlement
    \/ DirectSale

SaleSpec == Init /\ [][SaleNext]_vars

\* settlements that credit the seller's balance, with changes of the seller's
\* plan and the creation of coupons between their steps
BalanceNext ==
    \/ Registration({"vendor"}, {0})
    \/ Listing
    \/ Purchase({0}, {""})
    \/ Settlement
    \/ Subscription({1}, SubscriptionPlanInputs)
    \/ CouponsOf(OneCoupon, {"fixed"}, CouponValueInputs, {Null}, {Null}, {Null})

BalanceSpec == Init /\ [][BalanceNext]_vars

\* coupons created by requests that may run at the same time, and their use
UniquenessNext ==
    \/ Registration({"vendor"}, {0})
    \/ Listing
    \/ CouponsOf(MaxCoupons, CouponTypes, CouponValueInputs, {Null}, {Null}, {Null})
    \/ Purchase({0}, CouponCodeInputs)
    \/ CouponUse

UniquenessSpec == Init /\ [][UniquenessNext]_vars

\* purchases with coupons of both types, one of them worth more than the price
DiscountNext ==
    \/ Registration({"vendor"}, {0})
    \/ Listing
    \/ CouponsOf(OneCoupon, CouponTypes, {FromInt(25), FromInt(150)}, {Null}, {Null}, {Null})
    \/ Purchase({0}, CouponCodeInputs)
    \/ CouponUseAt({2})

DiscountSpec == Init /\ [][DiscountNext]_vars

\* settlement of a product of price 100 with a 10 percent commission, for
\* sellers without plan and on the plan with a 5 percent fee
FeeNext ==
    \/ Registration({"vendor"}, {0, 2})
    \/ ListingOf({Cents(10000)}, {"percentage"}, {FromInt(10)})
    \/ Purchase({0, MaxUsers}, {""})
    \/ Settlement
    \/ AffiliateSettlement

FeeSpec == Init /\ [][FeeNext]_vars

\* purchases with coupons of every scope, usage limit and expiry, evaluated
\* before and after the expiry
ValidityNext ==
    \/ Registration({"vendor"}, {0})
    \/ Listing
    \/ CouponsOf(OneCoupon, {"fixed"}, CouponValueInputs, CouponProductIdInputs, MaxUsageInputs \cup {0},
                 ExpiresAtInputs)
    \/ Purchase({0}, CouponCodeInputs)
    \/ CouponUseAt(NowInputs)

ValiditySpec == Init /\ [][ValidityNext]_vars

\* the coupons of ValiditySpec, validated and used in purchases
AgreementNext ==
    \/ ValidityNext
    \/ Validation(NowInputs)

AgreementSpec == Init /\ [][AgreementNext]_vars

\* purchases with a coupon without restriction, and their settlement
RedemptionNext ==
    \/ Registration({"vendor"}, {0})
    \/ Listing
    \/ CouponsOf(OneCoupon, CouponTypes, CouponValueInputs, {Null}, {Null}, {Null})
    \/ Purchase({0}, CouponCodeInputs)
    \/ CouponUse
    \/ Settlement

RedemptionSpec == Init /\ [][RedemptionNext]_vars

(***************************************************************************)
(* Properties of the settlement.                                           *)
(***************************************************************************)
SaleIds == 1..Len(sales)

Requests(kind) == {r \in BagToSet(inflight) : r.kind = kind}

\* C1: every Sale created by the webhook satisfies
\* amount = sellerAmount + affiliateAmount + platformFee exactly, in the
\* arithmetic of the program (sellerAmount + affiliateAmount + platformFee
\* === amount).
SaleAmountsAddUp ==
    \A i \in SaleIds :
        sales[i].amount =
            FAdd(FAdd(sales[i].sellerAmount, Num(sales[i].affiliateAmount)),
                 sales[i].platformFee)

\* C2: delivering the same payment-succeeded event twice results in exactly
\* one Sale: no two Sale records carry the same payment intent id.
OneSalePerPaymentIntent ==
    \A i, j \in SaleIds :
        sales[i].stripePaymentIntentId = sales[j].stripePaymentIntentId => i = j

\* C3: the usageCount of a coupon with a non-null maxUsage never exceeds
\* maxUsage, under any interleaving of the requests that apply it.
UsageWithinMaxUsage ==
    \A id \in 1..Len(coupons) :
        coupons[id].maxUsage /= Null => coupons[id].usageCount <= coupons[id].maxUsage

\* the sum of the sellerAmounts of the first n sales of a seller
RECURSIVE SellerAmounts(_, _)
SellerAmounts(sellerId, n) ==
    IF n = 0 THEN Zero
    ELSE IF sales[n].sellerId = sellerId
         THEN FAdd(SellerAmounts(sellerId, n - 1), sales[n].sellerAmount)
         ELSE SellerAmounts(sellerId, n - 1)

\* C4: credits to one seller from concurrently processed payment events
\* serialize: once the settlements are done, the balance of a seller who was
\* never credited as an affiliate (and, in SettlementSpec, never withdrew) is
\* the sum of the sellerAmounts of the seller's sales, also when every event
\* was delivered only once.
SellerCreditsSerialize ==
    (inflight = EmptyBag /\ OneSalePerPaymentIntent) =>
        \A u \in 1..Len(users) :
            (\A i \in SaleIds : sales[i].affiliateId /= u) =>
                users[u].balance = SellerAmounts(u, Len(sales))

\* a state another request can see: with MemStorage, one in which no handler
\* is between two of its storage calls
Observable == useMongo \/ Idle

\* C5: settlement is one atomic unit: in no state that another request can
\* see has a settlement credited a balance while its Sale record does not
\* exist yet.
NoCreditWithoutSale ==
    Observable => \A r \in Requests("webhook") : r.writes = 0

Clamp(x, lo, hi) == IF FLt(x, lo) THEN lo ELSE IF FLt(hi, x) THEN hi ELSE x

\* C7: for every sale with an affiliate, affiliateAmount is
\* clamp(rawCommission * 0.96, 0, amount).
AffiliateAmountClamped ==
    (lastResp.kind = "webhook" /\ lastResp.status = 200
        /\ intents[lastResp.req.pi].affiliateId /= 0) =>
        lastResp.req.affiliateAmount =
            Clamp(FMul(RawCommission(lastResp.req.product, lastResp.req.amount), Cents(96)),
                  Zero, lastResp.req.amount)

NonNegative(x) == ~FLt(x, Zero)

\* C8: every Sale created by settlement has non-negative amount, sellerAmount,
\* affiliateAmount and platformFee.
SaleAmountsNonNegative ==
    \A i \in SaleIds :
        /\ NonNegative(sales[i].amount)
        /\ NonNegative(sales[i].sellerAmount)
        /\ NonNegative(Num(sales[i].affiliateAmount))
        /\ NonNegative(sales[i].platformFee)

(***************************************************************************)
(* Properties of failed settlements and of withdrawal requests.            *)
(***************************************************************************)
\* the step serves request r: r leaves the requests in flight as it was
Took(r) == CopiesIn(r, inflight') < CopiesIn(r, inflight)

\* the step answers a request of the handler with the status
Answers(kind, status) ==
    lastResp' /= lastResp /\ lastResp'.kind = kind /\ lastResp'.status = status

PlanFees == {plans[p] : p \in DOMAIN plans}

\* a settlement is past a lookup only if the lookup found its object, and a
\* settlement that answered 400 had written nothing
LookupsPrecedeWrites ==
    /\ (lastResp.kind = "webhook" /\ lastResp.status = 400) => lastResp.req.writes = 0
    /\ \A r \in Requests("webhook") :
        /\ r.pc /= "getSeller" => HasUser(intents[r.pi].sellerId)
        /\ r.pc \notin {"getSeller", "getPlan"} => r.platformFeePercentage \in PlanFees
        /\ r.pc \in {"getSeller", "getPlan", "getAffiliate"} => r.writes = 0
    /\ \A i \in SaleIds : HasUser(sales[i].sellerId)

\* a settlement starts only for an event whose product exists
StartsOnlyWithProduct ==
    InflightOf("webhook")' > InflightOf("webhook") =>
        \E r \in BagToSet(inflight') :
            /\ r.kind = "webhook" /\ r.pc = "getSeller" /\ r.writes = 0
            /\ CopiesIn(r, inflight') > CopiesIn(r, inflight)
            /\ HasProduct(intents[r.pi].productId)

\* a settlement whose seller or plan is missing answers 400 and goes no further
MissingEndsSettlement ==
    \A r \in Requests("webhook") :
        (Took(r) /\ \/ (r.pc = "getSeller" /\ ~HasUser(intents[r.pi].sellerId))
                    \/ (r.pc = "getPlan" /\ ~HasPlan(r.platformFeePercentage))) =>
            /\ lastResp' = Response("webhook", 400, r)
            /\ inflight' = Finish(r)

\* the answer 400 of a settlement changes no balance and creates no Sale
FailureChangesNothing ==
    Answers("webhook", 400) => users' = users /\ sales' = sales

\* C6: when the product, the seller or the seller's plan of a
\* payment-succeeded event does not exist, settlement answers with an error,
\* no balance changes and no Sale is created.
FailedSettlementMutatesNothing ==
    /\ []LookupsPrecedeWrites
    /\ [][StartsOnlyWithProduct /\ MissingEndsSettlement /\ FailureChangesNothing]_vars

\* a settlement failed on a missing plan after one failed on a missing seller
\* or product could have: the seller exists, the plan does not
SettlementFailedOnMissingPlan ==
    /\ lastResp.kind = "webhook" /\ lastResp.status = 400
    /\ lastResp.req.pc = "getPlan"
    /\ ~HasPlan(lastResp.req.platformFeePercentage)

SettlementFailedOnMissingSeller ==
    /\ lastResp.kind = "webhook" /\ lastResp.status = 400
    /\ lastResp.req.pc = "getSeller"
    /\ ~HasUser(intents[lastResp.req.pi].sellerId)

SettlementFailedOnMissingProduct ==
    /\ lastResp.kind = "webhook" /\ lastResp.status = 400
    /\ lastResp.req.pc = "getProduct"
    /\ ~HasProduct(intents[lastResp.req.pi].productId)

\* C9: a withdrawal request is accepted if and only if amount >= 20 and
\* amount <= the balance of the user; on acceptance the balance decreases by
\* exactly amount and one pending Withdrawal with that amount exists.
AcceptedWithdrawalDebitsAmount ==
    [][\A r \in Requests("withdrawal") :
          (r.pc = "debit" /\ Took(r)) =>
              /\ users'[r.userId].balance = FSub(users[r.userId].balance, r.amount)
              /\ \E w \in 1..Len(withdrawals) :
                    withdrawals[w] =
                        [userId |-> r.userId, amount |-> r.amount, status |-> "pending",
                         stripeTransferId |-> Null]]_vars

\* a withdrawal request is in flight only if its amount passed both checks
\* against the balance of the user when it arrived
AcceptsOnlyWithinBalance ==
    InflightOf("withdrawal")' > InflightOf("withdrawal") =>
        \E r \in BagToSet(inflight') :
            /\ r.kind = "withdrawal" /\ r.writes = 0
            /\ CopiesIn(r, inflight') > CopiesIn(r, inflight)
            /\ FLe(MinimumWithdrawal, r.amount)
            /\ FLe(r.amount, users[r.userId].balance)

\* the answer 400 of a withdrawal request leaves balances and Withdrawals alone
RejectionChangesNothing ==
    Answers("withdrawal", 400) =>
        users' = users /\ withdrawals' = withdrawals /\ inflight' = inflight

\* every Withdrawal, and every request that will create one, is of an amount
\* that was at least the minimum and at most the balance read
NoWithdrawalPastChecks ==
    /\ \A w \in 1..Len(withdrawals) : FLe(MinimumWithdrawal, withdrawals[w].amount)
    /\ \A r \in Requests("withdrawal") :
        FLe(MinimumWithdrawal, r.amount) /\ FLe(r.amount, r.balance)
    /\ (lastResp.kind = "withdrawal" /\ lastResp.status = 400) =>
        /\ lastResp.req.writes = 0
        /\ FLt(lastResp.req.amount, MinimumWithdrawal)
            \/ FLt(lastResp.req.balance, lastResp.req.amount)

\* C10: a withdrawal request with amount below 20 or above the balance of the
\* user is rejected with an error, creates no Withdrawal and changes no
\* balance.
RejectedWithdrawalChangesNothing ==
    /\ []NoWithdrawalPastChecks
    /\ [][AcceptsOnlyWithinBalance /\ RejectionChangesNothing]_vars

\* a request for a cent more than a positive balance was rejected
WithdrawalAboveBalanceRejected ==
    /\ lastResp.kind = "withdrawal" /\ lastResp.status = 400
    /\ FLe(MinimumWithdrawal, lastResp.req.amount)
    /\ FLt(Zero, lastResp.req.balance)
    /\ FLt(lastResp.req.balance, lastResp.req.amount)

\* a request for a cent less than the minimum was rejected by a user who
\* could have paid it
WithdrawalBelowMinimumRejected ==
    /\ lastResp.kind = "withdrawal" /\ lastResp.status = 400
    /\ FLt(lastResp.req.amount, MinimumWithdrawal)
    /\ FLe(lastResp.req.amount, lastResp.req.balance)

(***************************************************************************)
(* Properties of the decisions on withdrawals.                             *)
(***************************************************************************)
WithdrawalIds == 1..Len(withdrawals)

\* C11: setting a pending withdrawal of amount X to rejected increases the
\* balance of its user by exactly X and changes no other balance.
RejectionRestoresAmount ==
    [][\A r \in Requests("withdrawalStatus") :
          (r.pc = "refund" /\ r.was = "pending" /\ Took(r)) =>
              users' = [users EXCEPT
                           ![r.userId].balance = FAdd(users[r.userId].balance, r.amount)]]_vars

\* C12: the status of a Withdrawal changes only from pending to completed or
\* from pending to rejected; a completed or rejected withdrawal keeps its
\* status.
StatusOnlyLeavesPending ==
    [][\A w \in WithdrawalIds :
          withdrawals'[w].status /= withdrawals[w].status =>
              /\ withdrawals[w].status = "pending"
              /\ withdrawals'[w].status \in {"completed", "rejected"}]_vars

BalancesNonNegative == \A u \in 1..Len(users) : NonNegative(users[u].balance)

\* the debit of an accepted withdrawal request leaves a balance that is not negative
DebitLeavesNonNegative ==
    \A r \in Requests("withdrawal") :
        (r.pc = "debit" /\ Took(r)) => NonNegative(users'[r.userId].balance)

\* C13: under any interleaving of withdrawal requests, status updates and
\* settlements, no balance is negative as a result of a withdrawal whose
\* validation passed.
WithdrawalNeverOverdraws ==
    /\ []BalancesNonNegative
    /\ [][DebitLeavesNonNegative]_vars

\* two requests of one user were both accepted against the earnings of one
\* sale, and the balance they left is not negative
TwoWithdrawalsOnOneSale ==
    /\ Len(withdrawals) = 2 /\ Len(sales) = 1 /\ inflight = EmptyBag
    /\ withdrawals[1].userId = withdrawals[2].userId
    /\ \A w \in WithdrawalIds : withdrawals[w].status = "pending"
    /\ NonNegative(users[withdrawals[1].userId].balance)

\* the sum of the amounts of the first n withdrawals of a user that are
\* pending or completed
RECURSIVE Withdrawn(_, _)
Withdrawn(userId, n) ==
    IF n = 0 THEN Zero
    ELSE IF withdrawals[n].userId = userId
            /\ withdrawals[n].status \in {"pending", "completed"}
         THEN FAdd(Withdrawn(userId, n - 1), withdrawals[n].amount)
         ELSE Withdrawn(userId, n - 1)

\* C14: the sum of the amounts of the withdrawals accepted against a balance
\* never exceeds it: what a seller has withdrawn is at most what the seller's
\* sales have earned, also when two requests are processed concurrently.
WithdrawnWithinEarned ==
    inflight = EmptyBag =>
        \A u \in 1..Len(users) :
            FLe(Withdrawn(u, Len(withdrawals)), SellerAmounts(u, Len(sales)))

(***************************************************************************)
(* Properties of coupons.                                                  *)
(***************************************************************************)
\* the discount of a coupon on a price
Discount(coupon, price) ==
    IF coupon.type = "percentage"
    THEN FDivInt(FMul(price, coupon.value), 100)
    ELSE coupon.value

\* the purchases in flight to which a coupon was applied
Discounts == {r \in Requests("paymentIntent") : r.couponId /= 0}

\* C15: when a valid coupon is applied, the amount charged is
\* max(0, price - discount), in cents as Stripe is asked for it, and so is
\* never negative.
ChargedAmountIsClampedDiscount ==
    \A r \in Discounts :
        LET price == products[r.productId].price
        IN  /\ ToCents(r.amount) =
                   ToCents(FMax(Zero, FSub(price, Discount(coupons[r.couponId], price))))
            /\ ToCents(r.amount) >= 0

(***************************************************************************)
(* Properties of the amounts of a settlement.                              *)
(***************************************************************************)
\* C16: after a settlement that ran with no other operation interleaved, the
\* balance of the seller has increased by the sellerAmount and the balance of
\* the affiliate by the affiliateAmount, for every seller and affiliate id of
\* the event (by both when they name the same user), so that what was
\* credited is sellerAmount + affiliateAmount.
SettlementCreditsShares ==
    (~useMongo /\ lastResp.kind = "webhook" /\ lastResp.status = 200
        /\ Requests("webhook") = {}) =>
        LET q      == lastResp.req
            seller == intents[q.pi].sellerId
            aff    == intents[q.pi].affiliateId
        IN  /\ users[seller].balance =
                   FAdd(IF aff = seller THEN FAdd(q.seller, q.affiliateAmount) ELSE q.seller,
                        q.sellerAmount)
            /\ (aff /= 0 /\ aff /= seller /\ HasUser(aff)) =>
                   users[aff].balance = FAdd(q.affiliate, q.affiliateAmount)

\* the fee percentage of the plan of a user: of plan 1 for a user without plan
PlanFeeOf(userId) ==
    plans[IF users[userId].planId = 0 THEN 1 ELSE users[userId].planId]

\* the amount of a sale less the affiliate's share
BeforeFee(sale) == FSub(sale.amount, Num(sale.affiliateAmount))

\* C17: the platform fee is computed on the seller's amount before fee:
\* platformFee = (amount - affiliateAmount) * feePercentage / 100 and
\* sellerAmount = (amount - affiliateAmount) - platformFee; price 100 with a
\* 10 percent commission, a 5 percent fee and an affiliate gives
\* affiliateAmount 9.6, platformFee 4.52 and sellerAmount 85.88.
FeeOnSellerAmountBeforeFee ==
    \A i \in SaleIds :
        LET fee == PlanFeeOf(sales[i].sellerId)
        IN  /\ sales[i].platformFee = FDivInt(FMul(BeforeFee(sales[i]), FromInt(fee)), 100)
            /\ sales[i].sellerAmount = FSub(BeforeFee(sales[i]), sales[i].platformFee)
            /\ (sales[i].amount = FromInt(100) /\ sales[i].affiliateId /= 0 /\ fee = 5) =>
                   /\ sales[i].affiliateAmount = Cents(960)
                   /\ sales[i].platformFee = Cents(452)
                   /\ sales[i].sellerAmount = Cents(8588)

\* C18: the fee percentage used by settlement is that of the seller's plan,
\* and that of plan 1 (Free) when the seller has no plan assigned.
FeeOfSellersPlan ==
    /\ \A i \in SaleIds :
          sales[i].platformFee = PlatformFee(BeforeFee(sales[i]), PlanFeeOf(sales[i].sellerId))
    /\ \A r \in Requests("webhook") :
          r.pc \notin {"getSeller", "getPlan"} =>
              r.platformFeePercentage = PlanFeeOf(intents[r.pi].sellerId)

\* a sale of a seller without plan was settled with the fee of the Free plan
SettledOnFreePlanByDefault ==
    \E i \in SaleIds :
        /\ users[sales[i].sellerId].planId = 0
        /\ sales[i].platformFee = PlatformFee(BeforeFee(sales[i]), plans[1])

\* a sale of a seller on plan 2 was settled with the fee of that plan
SettledOnBasicPlan ==
    \E i \in SaleIds :
        /\ users[sales[i].sellerId].planId = 2
        /\ sales[i].platformFee = PlatformFee(BeforeFee(sales[i]), plans[2])

(***************************************************************************)
(* Properties of the validity of coupons.                                  *)
(***************************************************************************)
\* the three conditions on a coupon for a product at the time now
CouponValid(coupon, productId, now) ==
    /\ (coupon.productId = Null \/ coupon.productId = productId)
    /\ (coupon.maxUsage = Null \/ coupon.usageCount < coupon.maxUsage)
    /\ (coupon.expiresAt = Null \/ coupon.expiresAt >= now)

\* the purchase r, suspended before the evaluation of its coupon, resumes in this step
Evaluated(r) == r.kind = "paymentIntent" /\ r.pc = "getCoupon" /\ Took(r)

\* the requests the step has put in flight
Resumed == {q \in BagToSet(inflight') : CopiesIn(q, inflight') > CopiesIn(q, inflight)}

\* the evaluation applies the coupon exactly when the three conditions hold
AppliesIffValid ==
    \A r \in BagToSet(inflight) :
        (Evaluated(r) /\ GetCouponByCode(r.couponCode) /= 0) =>
            \A q \in Resumed :
                LET coupon == coupons[GetCouponByCode(r.couponCode)]
                IN  /\ q.couponId /= 0 <=> CouponValid(coupon, r.productId, q.now)
                    /\ q.couponId /= 0 => q.pc = "incrementUsage"
                    /\ q.couponId = 0 => q.pc = "createIntent" /\ q.amount = r.amount

\* the usageCount is incremented for applied coupons only, by 1
IncrementsOnlyApplied ==
    coupons' /= coupons /\ Len(coupons') = Len(coupons) =>
        \E r \in BagToSet(inflight) :
            /\ r.kind = "paymentIntent" /\ r.pc = "incrementUsage" /\ Took(r)
            /\ coupons' = [coupons EXCEPT ![r.couponId].usageCount = @ + 1]

\* C19: a coupon is applied (discount taken and usageCount incremented) if
\* and only if its productId is null or the product's id, its maxUsage is
\* null or above its usageCount, and its expiresAt is null or not before
\* now; otherwise the amount stays the price and the usageCount is unchanged.
CouponAppliedIffValid == [][AppliesIffValid /\ IncrementsOnlyApplied]_vars

\* the payment intent was created for a discounted amount of the coupon's code
AppliedTo(pi, id) ==
    /\ intents[pi].couponCode = coupons[id].code
    /\ HasProduct(intents[pi].productId)
    /\ intents[pi].amount /= ToCents(products[intents[pi].productId].price)

\* the Sale records whose settlement applied the coupon
SalesApplying(id) ==
    {i \in SaleIds : AppliedTo(sales[i].stripePaymentIntentId, id)}

\* C20: the usageCount of a coupon is incremented by exactly 1 per settlement
\* that applies it, in the step that creates the Sale record of that
\* settlement: in every state it equals the number of Sale records whose
\* settlement applied the coupon.
UsageCountIsSalesApplying ==
    \A id \in 1..Len(coupons) :
        coupons[id].usageCount = Cardinality(SalesApplying(id))

(***************************************************************************)
(* Properties of the completion of withdrawals.                            *)
(***************************************************************************)
\* a step that leaves a withdrawal completed and changed leaves every balance,
\* and the amount and user of the withdrawal, as they were
CompletionKeepsBalances ==
    \A w \in WithdrawalIds :
        (withdrawals'[w] /= withdrawals[w] /\ withdrawals'[w].status = "completed") =>
            /\ users' = users
            /\ withdrawals'[w].amount = withdrawals[w].amount
            /\ withdrawals'[w].userId = withdrawals[w].userId

\* the answer to a completion: the withdrawal is completed and carries the
\* transfer reference of the request, if it had one
CompletionRecordsTransfer ==
    (Answers("withdrawalStatus", 200) /\ lastResp'.req.status = "completed") =>
        LET q == lastResp'.req
        IN  /\ users' = users
            /\ withdrawals'[q.id].status = "completed"
            /\ q.stripeTransferId /= Null =>
                   withdrawals'[q.id].stripeTransferId = q.stripeTransferId

\* C21: the transition of a withdrawal to completed changes no balance,
\* leaves the amount and userId of the withdrawal as they were, and records
\* on it the transfer reference that came with the request.
CompletionHasNoBalanceEffect ==
    [][CompletionKeepsBalances /\ CompletionRecordsTransfer]_vars

\* a pending withdrawal of a balance that was debited was completed with a
\* transfer reference
CompletedWithTransfer ==
    /\ lastResp.kind = "withdrawalStatus" /\ lastResp.status = 200
    /\ lastResp.req.status = "completed" /\ lastResp.req.was = "pending"
    /\ lastResp.req.stripeTransferId = 1
    /\ withdrawals[lastResp.req.id].stripeTransferId = 1
    /\ withdrawals[lastResp.req.id].status = "completed"

(***************************************************************************)
(* Properties of the Sale records.                                         *)
(***************************************************************************)
\* a Sale record without its status
Entry(sale) == [f \in DOMAIN sale \ {"status"} |-> sale[f]]

\* C22: a Sale record is append-only: it is never removed, and its
\* productId, buyerId, sellerId, affiliateId, amount, sellerAmount,
\* affiliateAmount, platformFee and payment reference never change; only
\* its status can.
SalesAppendOnly ==
    [][/\ Len(sales') >= Len(sales)
       /\ \A i \in SaleIds : Entry(sales'[i]) = Entry(sales[i])]_vars

\* a second Sale was recorded after the first, for another payment
SaleKeptWhileNextRecorded ==
    /\ Len(sales) = MaxSales
    /\ sales[1].stripePaymentIntentId /= sales[MaxSales].stripePaymentIntentId
    /\ sales[1].status = "completed"

\* C30: every Sale record with status completed was created by the webhook
\* from a payment-succeeded event, with the amounts that settlement computed;
\* no other operation creates a Sale with status completed or with amounts
\* chosen by the caller.
SalesOnlyFromSettlement ==
    [][Len(sales') > Len(sales) =>
          \E r \in Requests("webhook") :
              /\ r.pc = "createSale" /\ Took(r)
              /\ Len(sales') = Len(sales) + 1
              /\ LET sale == sales'[Len(sales')]
                 IN  /\ sale.status = "completed"
                     /\ sale.stripePaymentIntentId = r.pi
                     /\ sale.sellerAmount = r.sellerAmount
                     /\ Num(sale.affiliateAmount) = r.affiliateAmount
                     /\ sale.platformFee = r.platformFee]_vars

(***************************************************************************)
(* Properties of the users.                                                *)
(***************************************************************************)
\* the steps that write a balance: the credits of a settlement, the debit of
\* a withdrawal request and the refund of a rejection
WritesBalance(r) ==
    \/ r.kind = "webhook" /\ r.pc \in {"creditAffiliate", "creditSeller"}
    \/ r.kind = "withdrawal" /\ r.pc = "debit"
    \/ r.kind = "withdrawalStatus" /\ r.pc = "refund"

\* C23: the balance of a user is changed only by settlement, by the
\* withdrawal request and by the rejection of a withdrawal; every other
\* operation (subscription and plan changes among them) leaves every
\* balance unchanged, and users are never deleted.
BalanceOnlyByLedgerOperations ==
    [][/\ Len(users') >= Len(users)
       /\ (\E u \in 1..Len(users) : users'[u].balance /= users[u].balance) =>
              \E r \in BagToSet(inflight) : WritesBalance(r) /\ Took(r)]_vars

\* the plan of a seller with earnings was changed
PlanChangedWithEarnings ==
    /\ lastResp.kind = "subscription" /\ lastResp.status = 200
    /\ users[lastResp.req.userId].planId = 2
    /\ ~IsZero(users[lastResp.req.userId].balance)

(***************************************************************************)
(* Properties of the coupons as a collection.                              *)
(***************************************************************************)
CouponIds == 1..Len(coupons)

\* no two coupons have the same code
CodesUnique ==
    \A i, j \in CouponIds : coupons[i].code = coupons[j].code => i = j

\* a request for a code that a coupon has is answered 400 and creates nothing
ExistingCodeRejected ==
    \A r \in Requests("coupon") :
        (Took(r) /\ GetCouponByCode(r.code) /= 0) =>
            coupons' = coupons /\ Answers("coupon", 400)

\* C24: coupon codes are unique: no two coupons have the same code, also
\* when two creation requests with the same code are processed at the same
\* time; a creation request for an existing code is rejected and creates
\* no coupon.
CouponCodesUnique == []CodesUnique /\ [][ExistingCodeRejected]_vars

\* a coupon starts with usageCount 0, and no step lowers a usageCount
UsageCountMonotonic ==
    /\ \A id \in 1..Len(coupons') : id \notin CouponIds => coupons'[id].usageCount = 0
    /\ \A id \in CouponIds : coupons'[id].usageCount >= coupons[id].usageCount

\* incrementCouponUsage raises the usageCount of its coupon by 1 and changes
\* nothing else; no other step changes a coupon
IncrementRaisesByOne ==
    /\ \A r \in Requests("paymentIntent") :
           (r.pc = "incrementUsage" /\ Took(r)) =>
               /\ coupons'[r.couponId].usageCount = coupons[r.couponId].usageCount + 1
               /\ coupons' = [coupons EXCEPT
                                 ![r.couponId].usageCount = coupons'[r.couponId].usageCount]
    /\ (\E id \in CouponIds : coupons'[id] /= coupons[id]) =>
           \E r \in Requests("paymentIntent") : r.pc = "incrementUsage" /\ Took(r)

\* C25: the usageCount of a coupon starts at 0 and never decreases; each
\* incrementCouponUsage raises it by exactly 1 and changes no other field of
\* the coupon and no other coupon.
UsageCountIncrementsByOne == [][UsageCountMonotonic /\ IncrementRaisesByOne]_vars

\* a coupon was used twice
CouponUsedTwice == \E id \in CouponIds : coupons[id].usageCount >= 2

(***************************************************************************)
(* Progress of settlement.                                                 *)
(***************************************************************************)
\* a handler is settling the payment-succeeded event of payment intent pi
Settling(pi) == \E r \in Requests("webhook") : r.pi = pi

\* the completed Sale records that carry the payment reference pi
SalesOf(pi) ==
    {i \in SaleIds : sales[i].stripePaymentIntentId = pi /\ sales[i].status = "completed"}

\* the last response is that of the settlement of pi, which recorded the Sale
Done(pi) ==
    /\ lastResp.kind = "webhook" /\ lastResp.status = 200 /\ lastResp.req.pi = pi
    /\ SalesOf(pi) /= {}

\* C26: every payment-succeeded event whose product, seller and plan exist
\* eventually reaches Done: the handler does not block, a Sale record with
\* status completed and the payment reference of the event is recorded, and
\* the caller receives a response.
SettlementReachesDone ==
    \A pi \in 1..MaxIntents :
        Settling(pi) ~> (~Settling(pi) /\ Done(pi))

\* the settlement of an event has recorded its Sale and answered
SettlementDone ==
    \E pi \in 1..MaxIntents :
        /\ Done(pi)
        /\ inflight = EmptyBag
        /\ HasUser(intents[pi].sellerId) /\ HasProduct(intents[pi].productId)

(***************************************************************************)
(* The ledger: balances against sales and withdrawals.                     *)
(***************************************************************************)
\* the sum of the affiliateAmounts of the first n sales of an affiliate
RECURSIVE AffiliateAmounts(_, _)
AffiliateAmounts(affiliateId, n) ==
    IF n = 0 THEN Zero
    ELSE IF sales[n].affiliateId = affiliateId
         THEN FAdd(AffiliateAmounts(affiliateId, n - 1), Num(sales[n].affiliateAmount))
         ELSE AffiliateAmounts(affiliateId, n - 1)

\* what the sales have earned a user, less the withdrawals that hold or have paid it
Ledger(u) ==
    FSub(FAdd(SellerAmounts(u, Len(sales)), AffiliateAmounts(u, Len(sales))),
         Withdrawn(u, Len(withdrawals)))

\* C27: for every user, balance = the sum of sellerAmount over the Sales where
\* the user is the seller + the sum of affiliateAmount over the Sales where
\* the user is the affiliate - the sum of the amounts of the user's
\* withdrawals in status pending or completed; compared in cents, in the
\* states in which no request is being handled.
LedgerConservation ==
    inflight = EmptyBag =>
        \A u \in 1..Len(users) : ToCents(users[u].balance) = ToCents(Ledger(u))

\* C28: the amount of a withdrawal is credited back to its user at most
\* once over any sequence of status updates: a status update refunds only a
\* withdrawal that was pending, never one that was rejected or completed
\* before.
RefundedAtMostOnce ==
    [][\A r \in Requests("withdrawalStatus") :
          (r.pc = "refund" /\ Took(r)) => r.was = "pending"]_vars

\* C29: the two coupon checks agree: for every coupon, product id and time,
\* GET /api/coupons/:code/validate accepts the coupon if and only if
\* POST /api/create-payment-intent applies its discount, also for
\* maxUsage = 0, productId = 0 and expiresAt equal to now.
ValidateAgreesWithPaymentIntent ==
    [][(lastResp' /= lastResp /\ lastResp'.kind = "validate" /\ lastResp'.req.couponId /= 0) =>
          LET q == lastResp'.req
          IN  lastResp'.status = 200 <=>
                  CouponApplies(coupons[q.couponId], q.productId, q.now)]_vars

====
